---- MODULE Spec2Model ----
(***************************************************************************)
(* Model of tenki (src/src/main.rs): the ISD record parser `parse`, the    *)
(* concurrent ingestion in `main`, and the colour selection of             *)
(* `draw_stations`.                                                        *)
(*                                                                         *)
(* Units.  Latitude and longitude are kept in thousandths of a degree (the *)
(* raw token, before the division by 1000.0), wind speed, air temperature  *)
(* and air pressure in tenths (the raw token, before the division by       *)
(* 10.0), a datetime in minutes since 2016-01-01T00:00Z.  An Option<T> is  *)
(* a sequence of length 0 (None) or 1 (Some).                              *)
(***************************************************************************)
EXTENDS Integers, Sequences, FiniteSets, TLC

VARIABLES
  p_file,      \* parse: the input, [usaf, wban, lines] (filename codes + reader)
  p_max,       \* parse: max_measurements
  p_state,     \* parse: the loop's state, see ParseInit
  p_hist,      \* parse: per line read, the location fields it assigned and
               \* whether it pushed a measurement
  r_meas,      \* draw_stations: station.measurements of the station drawn
  r_window,    \* draw_stations: [start_time, end_time]
  r_pc,        \* draw_stations: "begin", "end", "pick", "done", or "idle"
  r_start,     \* draw_stations: `start`, the index of the first search
  r_end,       \* draw_stations: `end`, the index of the second search
  r_pixel,     \* draw_stations: `pixel`
  m_files,     \* main: the names of the files of the directory, in
               \* read_dir order (num_files = Len(m_files))
  m_max,       \* main: max_measurements
  m_task,      \* main: per file, the state of its pool job: "queued",
               \* "running", "sent" or "panicked"
  m_chan,      \* main: the Results in the channel (tx -> rx), oldest first
  m_pc,        \* main: where the main thread is
  m_taken,     \* main: the results rx.iter().take(num_files) has yielded
  m_stations,  \* main: `stations`, later the state managed by the server
  m_printed,   \* main: the files whose error the collector printed
  m_week,      \* main: `i` of the loop over the weekly images
  m_renders,   \* main: the number of calls of draw_stations so far
  m_image      \* main: the last image drawn

p_vars == <<p_file, p_max, p_state, p_hist>>
r_vars == <<r_meas, r_window, r_pc, r_start, r_end, r_pixel>>
m_vars == <<m_files, m_max, m_task, m_chan, m_pc, m_taken, m_stations,
            m_printed, m_week, m_renders, m_image>>
vars == <<p_vars, r_vars, m_vars>>

\* Bound: longest input file of the parse specification.
MaxLines == 3

\* Bound: longest measurement series of the draw_stations specification.
MaxSeries == 4

\* Bounds of the specification of main: the files of the directory, the
\* threads of the pool (--threads), and the tile requests served.
NumFiles == 3
NumThreads == 2
MaxRequests == 1

\* usize::max_value(): no cap on the number of measurements.
Unlimited == 2147483647

None == <<>>
Some(v) == <<v>>

(***************************************************************************)
(* One line of an input file.  A numeric token is given by its value; the  *)
(* set `unparsable` names the tokens on which .parse().unwrap() (or        *)
(* UTC.ymd / and_hms, for "date" and "time") panics.                       *)
(***************************************************************************)
Line(usaf, wban, dt, lat, lon, elev, wdir, wtype, wspeed, temp, pres, bad) ==
  [usaf |-> usaf, wban |-> wban, datetime |-> dt, latitude |-> lat,
   longitude |-> lon, elevation |-> elev, wind_direction |-> wdir,
   wind_type |-> wtype, wind_speed |-> wspeed, temp |-> temp,
   air_pressure |-> pres, unparsable |-> bad]

\* WindMeasurement
Calm == [kind |-> "Calm"]
Variable == [kind |-> "Variable"]
Normal(speed, direction) ==
  [kind |-> "Normal", speed |-> speed, direction |-> direction]

\* The empty HashMap `missing`: an absent key counts 0.
NoMissing ==
  [elevation |-> 0, wind |-> 0, air_temperature |-> 0, air_pressure |-> 0]

Bump(missing, key) == [missing EXCEPT ![key] = @ + 1]

\* wind_observation, lines 192-206: <<Option<WindMeasurement>, missing'>>
DecodeWindTypeFirst(wind_direction, wind_type, wind_speed, missing) ==
  IF wind_type = "C" \/ (wind_type = "9" /\ wind_speed = 0)
    THEN <<Some(Calm), missing>>
  ELSE IF wind_type = "V"
    THEN <<Some(Variable), missing>>
  ELSE IF wind_direction >= 0 /\ wind_direction <= 360 /\ wind_speed >= 0
          /\ wind_speed <= 900
    THEN <<Some(Normal(wind_speed, wind_direction)), missing>>
  ELSE <<None, Bump(missing, "wind")>>

DecodeWind(wind_direction, wind_type, wind_speed, missing) ==
  IF wind_direction >= 0 /\ wind_direction <= 360 /\ wind_speed >= 0
     /\ wind_speed <= 900
    THEN <<Some(Normal(wind_speed, wind_direction)), missing>>
  ELSE IF wind_type = "C" \/ (wind_type = "9" /\ wind_speed = 0)
    THEN <<Some(Calm), missing>>
  ELSE IF wind_type = "V"
    THEN <<Some(Variable), missing>>
  ELSE <<None, Bump(missing, "wind")>>

\* maybe_air_temperature, lines 209-215
DecodeTemperature(temp, missing) ==
  IF temp >= -1000 /\ temp <= 1000
    THEN <<Some(temp), missing>>
    ELSE <<None, Bump(missing, "air_temperature")>>

\* maybe_air_pressure, lines 218-224
DecodePressure(air_pressure, missing) ==
  IF air_pressure >= 0 /\ air_pressure <= 20000
    THEN <<Some(air_pressure), missing>>
    ELSE <<None, Bump(missing, "air_pressure")>>

\* The test of lines 226-229: the line yields no measurement.
IsEmptyMeasurementElev(elevation, wind, temperature, pressure) ==
  \/ wind = None /\ temperature = None /\ pressure = None
  \/ ~(elevation >= -400 /\ elevation <= 9000)

IsEmptyMeasurement(elevation, wind, temperature, pressure) ==
  wind = None /\ temperature = None /\ pressure = None

\* WeatherMeasurement
Measurement(datetime, wind, temperature, pressure) ==
  [datetime |-> datetime, wind |-> wind, air_temperature |-> temperature,
   air_pressure |-> pressure]

\* station.measurements.push(..), lines 231-236
PushFront(measurements, m) == <<m>> \o measurements

Push(measurements, m) == Append(measurements, m)

\* The guard of the two location writes, lines 168 and 175.
MayWriteLocationAlways(measurements) == TRUE

MayWriteLocation(measurements) == measurements = <<>>

\* The cap test of line 238.
CapReached(measurements, max_measurements) ==
  Len(measurements) > max_measurements

\* The station and the counters as parse creates them, lines 124-135.
NewStation(usaf, wban) ==
  [usaf |-> usaf, wban |-> wban, latitude |-> -1000000,
   longitude |-> -1000000, elevation |-> None, measurements |-> <<>>]

(***************************************************************************)
(* The state of the loop of parse: `status` is "running" while lines are   *)
(* read, "ok" once parse returned Ok(station), "err" once a ret_check      *)
(* returned Err, "panic" once an unwrap panicked; `pos` counts the lines   *)
(* read; `wrote` names the location fields the last line assigned.         *)
(***************************************************************************)
ParseInit(usaf, wban) ==
  [station |-> NewStation(usaf, wban), missing |-> NoMissing,
   status |-> "running", pos |-> 0, wrote |-> {}]

\* ret_check_* failed, or an unwrap panicked, in the line being read.
Stop(st, station, missing, status, wrote) ==
  [station |-> station, missing |-> missing, status |-> status,
   pos |-> st.pos + 1, wrote |-> wrote]

\* Lines 179-240 of one iteration: everything after the location.
ParseLineTail(st, line, max_measurements, s2, wrote) ==
  IF "elevation" \in line.unparsable
    THEN Stop(st, s2, st.missing, "panic", wrote)
  ELSE
  LET inRange == line.elevation >= -400 /\ line.elevation <= 9000
      s3 == IF inRange /\ s2.elevation = None
              THEN [s2 EXCEPT !.elevation = Some(line.elevation)]
              ELSE s2
      m3 == IF inRange THEN st.missing ELSE Bump(st.missing, "elevation")
  IN
  IF "wind" \in line.unparsable
    THEN Stop(st, s3, m3, "panic", wrote)
  ELSE
  LET w == DecodeWind(line.wind_direction, line.wind_type, line.wind_speed, m3)
  IN
  IF "temp" \in line.unparsable
    THEN Stop(st, s3, w[2], "panic", wrote)
  ELSE
  LET t == DecodeTemperature(line.temp, w[2])
  IN
  IF "air_pressure" \in line.unparsable
    THEN Stop(st, s3, t[2], "panic", wrote)
  ELSE
  LET p == DecodePressure(line.air_pressure, t[2])
  IN
  IF IsEmptyMeasurement(line.elevation, w[1], t[1], p[1])
    THEN [station |-> s3, missing |-> p[2], status |-> "running",
          pos |-> st.pos + 1, wrote |-> wrote]
  ELSE
  LET s4 == [s3 EXCEPT !.measurements =
                Push(@, Measurement(line.datetime, w[1], t[1], p[1]))]
  IN  [station |-> s4, missing |-> p[2],
       status |-> IF CapReached(s4.measurements, max_measurements)
                    THEN "ok" ELSE "running",
       pos |-> st.pos + 1, wrote |-> wrote]

\* One iteration of the loop of parse, lines 136-241.
ParseLine(st, line, max_measurements) ==
  IF "line" \in line.unparsable
    THEN Stop(st, st.station, st.missing, "panic", {})
  ELSE IF ~(st.station.usaf = line.usaf)
    THEN Stop(st, st.station, st.missing, "err", {})
  ELSE IF ~(st.station.wban = line.wban)
    THEN Stop(st, st.station, st.missing, "err", {})
  ELSE IF "date" \in line.unparsable \/ "time" \in line.unparsable
    THEN Stop(st, st.station, st.missing, "panic", {})
  ELSE IF "latitude" \in line.unparsable
    THEN Stop(st, st.station, st.missing, "panic", {})
  ELSE IF ~(line.latitude >= -90000) \/ ~(line.latitude <= 90000)
    THEN Stop(st, st.station, st.missing, "err", {})
  ELSE
  LET latch == MayWriteLocation(st.station.measurements)
      s1 == IF latch THEN [st.station EXCEPT !.latitude = line.latitude]
                     ELSE st.station
      w1 == IF latch THEN {"latitude"} ELSE {}
  IN
  IF "longitude" \in line.unparsable
    THEN Stop(st, s1, st.missing, "panic", w1)
  ELSE IF ~(line.longitude >= -180000) \/ ~(line.longitude <= 180000)
    THEN Stop(st, s1, st.missing, "err", w1)
  ELSE
  LET latch2 == MayWriteLocation(s1.measurements)
      s2 == IF latch2 THEN [s1 EXCEPT !.longitude = line.longitude] ELSE s1
      w2 == IF latch2 THEN w1 \cup {"longitude"} ELSE w1
  IN  ParseLineTail(st, line, max_measurements, s2, w2)

\* reader.lines() is exhausted: return Ok(station), line 254.
ParseEnd(st) == [st EXCEPT !.status = "ok", !.wrote = {}]

\* parse, lines 112-255, run to its end.
RECURSIVE ParseFrom(_, _, _)
ParseFrom(st, lines, max_measurements) ==
  IF st.status # "running" THEN st
  ELSE IF st.pos = Len(lines) THEN ParseEnd(st)
  ELSE ParseFrom(ParseLine(st, lines[st.pos + 1], max_measurements), lines,
                 max_measurements)

Parse(file, max_measurements) ==
  ParseFrom(ParseInit(file.usaf, file.wban), file.lines, max_measurements)

----------------------------------------------------------------------------
(* The inputs of the parse specification. *)

\* The station codes of the file name, "<USAF>-<WBAN>-<year>".
FileUsaf == "010010"
FileWban == "99999"

GoodLine(dt, lat, lon) ==
  Line(FileUsaf, FileWban, dt, lat, lon, 9, 180, "N", 50, 123, 10132, {})

\* wind, temperature and pressure all out of range: yields no measurement.
EmptyLine(dt, lat, lon) ==
  Line(FileUsaf, FileWban, dt, lat, lon, 9, 999, "N", 9999, 9999, 99999, {})

ParseLines ==
  {GoodLine(dt, 48117, 11583) : dt \in {10, 20}}
  \cup {GoodLine(20, 52500, 13400), EmptyLine(10, 52500, 13400),
        EmptyLine(20, 48117, 11583)}
  \cup {\* elevation out of range, wind valid, no temperature, no pressure
        Line(FileUsaf, FileWban, 10, 48117, 11583, 9999, 90, "N", 10, 9999,
             99999, {}),
        \* elevation out of range and nothing else present
        Line(FileUsaf, FileWban, 20, 48117, 11583, -401, 999, "N", 9999,
             -1001, -1, {}),
        \* only a temperature
        Line(FileUsaf, FileWban, 20, 48117, 11583, 9000, 999, "9", 9999,
             -1000, 20001, {}),
        \* station code mismatches
        Line("999999", FileWban, 20, 48117, 11583, 9, 180, "N", 50, 123,
             10132, {}),
        Line(FileUsaf, "00000", 20, 48117, 11583, 9, 180, "N", 50, 123,
             10132, {}),
        \* location out of range
        Line(FileUsaf, FileWban, 20, 90001, 11583, 9, 180, "N", 50, 123,
             10132, {}),
        Line(FileUsaf, FileWban, 20, 30000, -180001, 9, 180, "N", 50, 123,
             10132, {}),
        \* unparsable tokens
        Line(FileUsaf, FileWban, 20, 30000, 11583, 9, 180, "N", 50, 123,
             10132, {"date"}),
        Line(FileUsaf, FileWban, 20, 30000, 11583, 9, 180, "N", 50, 123,
             10132, {"air_pressure"})}

\* seq is non-decreasing in datetime.
Sorted(seq) ==
  \A i, j \in 1..Len(seq) : i < j => seq[i].datetime <= seq[j].datetime

RECURSIVE SeqsUpTo(_, _)
SeqsUpTo(S, n) ==
  IF n = 0 THEN {<<>>}
  ELSE LET shorter == SeqsUpTo(S, n - 1)
       IN  shorter \cup {Append(s, x) : s \in {t \in shorter : Len(t) = n - 1},
                                        x \in S}

\* The sequences of SeqsUpTo(S, n) that are non-decreasing in datetime.
RECURSIVE SortedSeqsUpTo(_, _)
SortedSeqsUpTo(S, n) ==
  IF n = 0 THEN {<<>>}
  ELSE LET shorter == SortedSeqsUpTo(S, n - 1)
       IN  shorter \cup
           {Append(q[1], q[2]) :
              q \in {r \in {t \in shorter : Len(t) = n - 1} \X S :
                       \/ r[1] = <<>>
                       \/ r[1][Len(r[1])].datetime <= r[2].datetime}}

WindDirections == {-1, 0, 360, 361, 999}
WindTypes == {"C", "9", "V", "N"}
WindSpeeds == {-1, 0, 1, 900, 901, 9999}

\* One-line files sweeping the wind tokens, with and without a temperature.
WindLines ==
  {Line(FileUsaf, FileWban, 10, 48117, 11583, 9, d, ty, sp, t, 99999, {}) :
     d \in WindDirections, ty \in WindTypes, sp \in WindSpeeds,
     t \in {123, 9999}}

ParseInputs ==
  {[usaf |-> FileUsaf, wban |-> FileWban, lines |-> ls] :
     ls \in SeqsUpTo(ParseLines, MaxLines) \cup {<<l>> : l \in WindLines}}

\* No station is being drawn.
RenderIdle ==
  /\ r_meas = <<>>
  /\ r_window = [start_time |-> 0, end_time |-> 0]
  /\ r_pc = "idle"
  /\ r_start = 0
  /\ r_end = 0
  /\ r_pixel = <<0, 0, 0>>

\* main is not running.
MainIdle ==
  /\ m_files = <<>>
  /\ m_max = Unlimited
  /\ m_task = <<>>
  /\ m_chan = <<>>
  /\ m_pc = "idle"
  /\ m_taken = 0
  /\ m_stations = <<>>
  /\ m_printed = <<>>
  /\ m_week = 0
  /\ m_renders = 0
  /\ m_image = <<>>

\* No file is being parsed.
ParseIdle ==
  /\ p_file = [usaf |-> "", wban |-> "", lines |-> <<>>]
  /\ p_max = Unlimited
  /\ p_state = ParseEnd(ParseInit("", ""))
  /\ p_hist = <<>>

InitParse ==
  /\ RenderIdle
  /\ MainIdle
  /\ p_file \in ParseInputs
  /\ p_max \in {0, 1, Unlimited}
  /\ p_state = ParseInit(p_file.usaf, p_file.wban)
  /\ p_hist = <<>>

\* The loop reads the next line.
ParseStep ==
  /\ p_state.status = "running"
  /\ p_state.pos < Len(p_file.lines)
  /\ p_state' = ParseLine(p_state, p_file.lines[p_state.pos + 1], p_max)
  /\ p_hist' = Append(p_hist,
       [wrote |-> p_state'.wrote,
        pushed |-> Len(p_state'.station.measurements)
                     > Len(p_state.station.measurements)])
  /\ UNCHANGED <<p_file, p_max, r_vars, m_vars>>

\* The input is exhausted: parse returns Ok(station).
ParseReturn ==
  /\ p_state.status = "running"
  /\ p_state.pos = Len(p_file.lines)
  /\ p_state' = ParseEnd(p_state)
  /\ UNCHANGED <<p_file, p_max, p_hist, r_vars, m_vars>>

NextParse == ParseStep \/ ParseReturn

SpecParse == InitParse /\ [][NextParse]_vars

----------------------------------------------------------------------------
(***************************************************************************)
(* f32 arithmetic.  A finite f32 is [neg, m, e], standing for              *)
(* (-1)^neg * m * 2^e with 2^23 <= m < 2^24, or m = 0.  Every operation    *)
(* rounds its exact result to the nearest f32, ties to even, as the        *)
(* hardware does.  No value of the model leaves the normal range, so       *)
(* subnormals, infinities and NaN are not represented.                     *)
(***************************************************************************)
\* The number of bits of n, for 0 <= n < 2^31.
BitLen(n) == Cardinality({k \in 0..30 : 2^k <= n})

F32Zero == [neg |-> FALSE, m |-> 0, e |-> 0]

\* The f32 nearest to (m + f) * 2^e, where 0 <= m < 2^31 and the fraction f
\* is 0 if ~sticky and some 0 < f < 1 if sticky (then m has 25 bits or more).
F32Round(neg, m, e, sticky) ==
  LET len == BitLen(m)
  IN  IF m = 0 THEN F32Zero
      ELSE IF len <= 24
        THEN [neg |-> neg, m |-> m * 2^(24 - len), e |-> e - (24 - len)]
      ELSE
        LET k == len - 24
            q == m \div 2^k
            r == m % 2^k
            half == 2^(k - 1)
            up == \/ r > half
                  \/ r = half /\ sticky
                  \/ r = half /\ ~sticky /\ q % 2 = 1
            q1 == IF up THEN q + 1 ELSE q
        IN  IF q1 = 16777216
              THEN [neg |-> neg, m |-> 8388608, e |-> e + k + 1]
              ELSE [neg |-> neg, m |-> q1, e |-> e + k]

\* `n as f32`, for |n| < 2^24 (exact).
F32FromInt(n) ==
  IF n < 0 THEN F32Round(TRUE, -n, 0, FALSE) ELSE F32Round(FALSE, n, 0, FALSE)

F32Neg(a) == [a EXCEPT !.neg = ~@]

\* a < b
F32MagLess(a, b) ==
  IF a.m = 0 THEN b.m # 0
  ELSE IF b.m = 0 THEN FALSE
  ELSE a.e < b.e \/ (a.e = b.e /\ a.m < b.m)

F32Less(a, b) ==
  IF a.m = 0 /\ b.m = 0 THEN FALSE
  ELSE IF a.neg /\ ~b.neg THEN TRUE
  ELSE IF ~a.neg /\ b.neg THEN FALSE
  ELSE IF a.neg THEN F32MagLess(b, a)
  ELSE F32MagLess(a, b)

\* f32::max and f32::min
F32Max(a, b) == IF F32Less(a, b) THEN b ELSE a
F32Min(a, b) == IF F32Less(b, a) THEN b ELSE a

\* a + b: the operands are aligned on the larger exponent with three guard
\* bits; the bits of the smaller operand shifted out are kept as `sticky`.
F32Add(a, b) ==
  IF a.m = 0 THEN b
  ELSE IF b.m = 0 THEN a
  ELSE
    LET x == IF F32MagLess(a, b) THEN b ELSE a
        y == IF F32MagLess(a, b) THEN a ELSE b
        shift == x.e - y.e
        X == x.m * 8
        Y == IF shift >= 27 THEN 0 ELSE (y.m * 8) \div 2^shift
        lost == IF shift >= 27 THEN TRUE ELSE (y.m * 8) % 2^shift # 0
    IN  IF x.neg = y.neg
          THEN F32Round(x.neg, X + Y, x.e - 3, lost)
          ELSE IF lost
            THEN F32Round(x.neg, X - Y - 1, x.e - 3, TRUE)
            ELSE F32Round(x.neg, X - Y, x.e - 3, FALSE)

F32Sub(a, b) == F32Add(a, F32Neg(b))

\* <<floor(n * 2^bits / d), n * 2^bits mod d>>, by long division five bits
\* at a time (bits is a multiple of 5, d < 2^24).
RECURSIVE LongDiv(_, _, _)
LongDiv(n, d, bits) ==
  IF bits = 0 THEN <<n \div d, n % d>>
  ELSE LET prev == LongDiv(n, d, bits - 5)
           r32 == 32 * prev[2]
       IN  <<32 * prev[1] + r32 \div d, r32 % d>>

\* a / b, for b # 0
F32Div(a, b) ==
  IF a.m = 0 THEN F32Zero
  ELSE LET qr == LongDiv(a.m, b.m, 25)
       IN  F32Round(a.neg # b.neg, qr[1], a.e - b.e - 25, qr[2] # 0)

\* a * b: the 48-bit product of the mantissas from 12-bit halves.
F32Mul(a, b) ==
  IF a.m = 0 \/ b.m = 0 THEN F32Zero
  ELSE
    LET ah == a.m \div 4096
        al == a.m % 4096
        bh == b.m \div 4096
        bl == b.m % 4096
        t0 == al * bl
        t1 == ah * bl + al * bh + t0 \div 4096
        t2 == ah * bh + t1 \div 4096
        c0 == t0 % 4096
        c1 == t1 % 4096
    IN  F32Round(a.neg # b.neg, t2 * 8 + c1 \div 512, a.e + b.e + 21,
                 c1 % 512 # 0 \/ c0 # 0)

\* `a as u8`: towards zero, saturating.
F32AsU8(a) ==
  IF a.m = 0 \/ a.neg THEN 0
  ELSE IF a.e >= 0 THEN 255
  ELSE IF a.e <= -24 THEN 0
  ELSE LET v == a.m \div 2^(-a.e) IN IF v > 255 THEN 255 ELSE v

----------------------------------------------------------------------------
(* draw_stations: the colour of one station. *)

Black == <<0, 0, 0>>

\* The f32 the parser stores for a temperature token, line 211.
TemperatureF32(temp) == F32Div(F32FromInt(temp), F32FromInt(10))

\* The clamp of line 350: t_max.min(t_min.max(t)).
Clamp(t, t_min, t_max) == F32Min(t_max, F32Max(t_min, t))

\* Lines 347-353: the pixel of a measurement whose temperature is the token
\* temp.
TemperatureColor(temp) ==
  LET t == TemperatureF32(temp)
      t_min == F32FromInt(-30)
      t_max == F32FromInt(40)
      scaled == F32Div(F32Sub(Clamp(t, t_min, t_max), t_min),
                       F32Sub(t_max, t_min))
  IN  <<F32AsU8(F32Mul(F32FromInt(255), scaled)),
        127,
        F32AsU8(F32Mul(F32FromInt(255), F32Sub(F32FromInt(1), scaled)))>>

(***************************************************************************)
(* slice::binary_search_by(|m| m.datetime.cmp(&key)) followed by           *)
(* `Ok(index) => index, Err(index) => index`, over seq[lo+1..hi].  The     *)
(* library promises the index of a matching element, any one of them when  *)
(* several match, or else the insertion point; which element is probed     *)
(* first differs between library versions, so the result is every index a  *)
(* bisection can end on, whatever element it probes.                       *)
(***************************************************************************)
RECURSIVE Bisect(_, _, _, _)
Bisect(seq, key, lo, hi) ==
  IF lo = hi THEN {lo}
  ELSE UNION {IF seq[mid + 1].datetime = key THEN {mid}
              ELSE IF seq[mid + 1].datetime < key
                THEN Bisect(seq, key, mid + 1, hi)
                ELSE Bisect(seq, key, lo, mid) : mid \in lo..(hi - 1)}

BinarySearchBy(seq, key) == Bisect(seq, key, 0, Len(seq))

\* measurements.iter().filter(|m| m.air_temperature.is_some()).next(),
\* lines 343-345: the index of the measurement, 0 for None.
LastWithTemperature(window) ==
  LET has == {i \in 1..Len(window) : window[i].air_temperature # None}
  IN  IF has = {} THEN 0 ELSE CHOOSE i \in has : \A j \in has : j <= i

FirstWithTemperature(window) ==
  LET has == {i \in 1..Len(window) : window[i].air_temperature # None}
  IN  IF has = {} THEN 0 ELSE CHOOSE i \in has : \A j \in has : i <= j

\* Lines 343-356: the pixel of the candidate window.
WindowColor(window) ==
  LET i == FirstWithTemperature(window)
  IN  IF i = 0 THEN Black
      ELSE TemperatureColor(window[i].air_temperature[1])

\* split_at: the part of seq from index `from` (0-based) on, and its first
\* `n` elements.
Skip(seq, from) == SubSeq(seq, from + 1, Len(seq))
Take(seq, n) == SubSeq(seq, 1, n)

\* Lines 326-357: every pixel draw_stations can give the station.
StationColors(measurements, start_time, end_time) ==
  IF measurements = <<>> THEN {Black}
  ELSE UNION {{WindowColor(Take(Skip(measurements, start), end)) :
                 end \in BinarySearchBy(Skip(measurements, start), end_time)} :
              start \in BinarySearchBy(measurements, start_time)}

----------------------------------------------------------------------------
(* The draw_stations specification: the colour of one station. *)

RenderTimes == {1, 3, 5, 7}

RenderMeasurements ==
  {Measurement(dt, None, t, Some(10132)) :
     dt \in RenderTimes, t \in {None, Some(-300), Some(400)}}

\* Series in the order parse leaves them for a sorted file, and the short
\* series in any order.
RenderSeries ==
  SortedSeqsUpTo(RenderMeasurements, MaxSeries)
    \cup SeqsUpTo(RenderMeasurements, 2)

RenderWindows ==
  {[start_time |-> a, end_time |-> b] : a \in {0, 3, 6}, b \in {3, 6}}

\* One measurement inside the window [3, 6), with every temperature token the
\* parser accepts.
SweepSeries ==
  {<<Measurement(3, None, Some(t), None)>> : t \in -1000..1000}

InitRender ==
  /\ ParseIdle
  /\ MainIdle
  /\ \/ r_meas \in RenderSeries /\ r_window \in RenderWindows
     \/ r_meas \in SweepSeries /\ r_window = [start_time |-> 3, end_time |-> 6]
  /\ r_pc = "begin"
  /\ r_start = 0
  /\ r_end = 0
  /\ r_pixel = Black

\* Line 326-327: a station without measurements is black.
DrawEmpty ==
  /\ r_pc = "begin"
  /\ r_meas = <<>>
  /\ r_pixel' = Black
  /\ r_pc' = "done"
  /\ UNCHANGED <<r_meas, r_window, r_start, r_end, p_vars, m_vars>>

\* Lines 329-334: the first search.
SearchStart ==
  /\ r_pc = "begin"
  /\ r_meas # <<>>
  /\ r_start' \in BinarySearchBy(r_meas, r_window.start_time)
  /\ r_pc' = "end"
  /\ UNCHANGED <<r_meas, r_window, r_end, r_pixel, p_vars, m_vars>>

\* Lines 336-340: the second search, in the part after `start`.
SearchEnd ==
  /\ r_pc = "end"
  /\ r_end' \in BinarySearchBy(Skip(r_meas, r_start), r_window.end_time)
  /\ r_pc' = "pick"
  /\ UNCHANGED <<r_meas, r_window, r_start, r_pixel, p_vars, m_vars>>

\* Lines 343-356: the pixel of the candidate window.
PickColor ==
  /\ r_pc = "pick"
  /\ r_pixel' = WindowColor(Take(Skip(r_meas, r_start), r_end))
  /\ r_pc' = "done"
  /\ UNCHANGED <<r_meas, r_window, r_start, r_end, p_vars, m_vars>>

NextRender == DrawEmpty \/ SearchStart \/ SearchEnd \/ PickColor

SpecRender == InitRender /\ [][NextRender]_vars

----------------------------------------------------------------------------
(* main: the ingestion of a directory, the weekly images, the tile server. *)

\* UTC.ymd(2016, 1, 1).and_hms(0, 0, 0), the origin of the model's datetimes.
Start2016 == 0
\* time::Duration::weeks(1), in minutes.
Week == 10080
\* The weekly images of the loop `for i in 0..(52)`.
NumWeeks == 52
\* UTC.ymd(1900, 1, 1) and UTC.ymd(2100, 1, 1), in minutes since 2016-01-01.
Time1900 == -61009920
Time2100 == 44180640

\* A well-formed line of the station usaf-wban.
StationLine(usaf, wban, dt, lat, lon, temp) ==
  Line(usaf, wban, dt, lat, lon, 9, 180, "N", 50, temp, 10132, {})

(***************************************************************************)
(* The files of the model, by name "<USAF>-<WBAN>-2016": `exists` is false *)
(* for a path File::open fails on.                                         *)
(***************************************************************************)
FileNames == {"A", "B", "C", "D", "E"}

FileOf(name) ==
  CASE name = "A" ->
         [usaf |-> "010010", wban |-> "99999", exists |-> TRUE, lines |->
            <<StationLine("010010", "99999", 10, 48117, 11583, -50),
              StationLine("010010", "99999", 10090, 48117, 11583, 123)>>]
    [] name = "B" ->
         \* its first line yields no measurement
         [usaf |-> "020020", wban |-> "99999", exists |-> TRUE, lines |->
            <<Line("020020", "99999", 10, -33900, 151200, 9, 999, "N", 9999,
                   9999, 99999, {}),
              StationLine("020020", "99999", 20, -33946, 151177, 250)>>]
    [] name = "C" ->
         \* station code mismatch on its third line
         [usaf |-> "030030", wban |-> "99999", exists |-> TRUE, lines |->
            <<StationLine("030030", "99999", 10, 60000, 10000, 10),
              StationLine("030030", "99999", 20, 60000, 10000, 20),
              StationLine("030031", "99999", 30, 60000, 10000, 30),
              \* and a latitude out of range on its fourth
              StationLine("030030", "99999", 40, 90001, 10000, 40)>>]
    [] name = "D" ->
         \* unparsable date on its second line
         [usaf |-> "040040", wban |-> "99999", exists |-> TRUE, lines |->
            <<StationLine("040040", "99999", 10, 10000, 10000, 10),
              [StationLine("040040", "99999", 20, 10000, 10000, 20)
                 EXCEPT !.unparsable = {"date"}]>>]
    [] name = "E" ->
         \* no such file
         [usaf |-> "050050", wban |-> "99999", exists |-> FALSE,
          lines |-> <<>>]

\* The Result a finished parse stands for: Ok(station), Err(..), or a panic.
ResultOf(st) ==
  [kind |-> st.status,
   station |-> IF st.status = "ok" THEN Some(st.station) ELSE None]

\* A parse_file whose Err arm hands the station on as it stands.
ParseFileKeepPartial(file, max_measurements) ==
  IF ~file.exists THEN [kind |-> "panic", station |-> None]
  ELSE LET st == Parse(file, max_measurements)
       IN  IF st.status = "panic" THEN [kind |-> "panic", station |-> None]
           ELSE [kind |-> "ok", station |-> Some(st.station)]

\* parse_file, lines 257-279: File::open(..).unwrap() panics on a missing
\* file; the Err of parse is wrapped into another Err.
ParseFile(file, max_measurements) ==
  IF ~file.exists THEN [kind |-> "panic", station |-> None]
  ELSE ResultOf(Parse(file, max_measurements))

\* rx.iter().take(num_files), line 502: the iterator is exhausted.
TakeFinishedAfterFirst(taken, num_files) == taken >= 1 \/ num_files = 0

TakeFinished(taken, num_files) == taken = num_files

\* The station is outside the box, lines 307-311.
OutOfBox(station, box) ==
  \/ station.longitude < box.longitude_min
  \/ station.longitude > box.longitude_max
  \/ station.latitude < box.latitude_min
  \/ station.latitude > box.latitude_max

(***************************************************************************)
(* draw_stations, lines 287-371.  The image is kept as one entry per       *)
(* station: None for a station outside the box, Some(pixel) for one drawn; *)
(* where the dot lands is not modelled.  The result is the set of images   *)
(* the searches can give.                                                  *)
(***************************************************************************)
RECURSIVE DrawStations(_, _, _, _)
DrawStations(stations, box, start_time, end_time) ==
  IF stations = <<>> THEN {<<>>}
  ELSE LET n == Len(stations)
           last == stations[n]
           pixels == IF OutOfBox(last, box) THEN {None}
                     ELSE {Some(c) : c \in StationColors(last.measurements,
                                                         start_time, end_time)}
       IN  {Append(img, px) :
              img \in DrawStations(SubSeq(stations, 1, n - 1), box,
                                   start_time, end_time),
              px \in pixels}

\* The box of draw_stations_to_file, lines 377-381.
WorldBox ==
  [longitude_min |-> -180000, longitude_max |-> 180000,
   latitude_min |-> -90000, latitude_max |-> 90000]

(***************************************************************************)
(* coordinates_to_degrees for the tiles of zoom 0 and 1, lines 390-398 and *)
(* 418-419: longitude x / n * 360 - 180, latitude atan(sinh(pi (1 - 2y/n)))*)
(* which is 85.0511 for y = 0, 0 for y = n/2, -85.0511 for y = n.  A       *)
(* station's latitude is a whole number of thousandths, so it is inside    *)
(* +-85.0511 exactly when it is inside +-85051.                            *)
(***************************************************************************)
Tiles == {<<0, 0, 0>>, <<1, 1, 1>>}

TileLongitude(zoom, x) == (x * 360000) \div (2^zoom) - 180000

TileLatitude(zoom, y) ==
  IF y = 0 THEN 85051 ELSE IF y = 2^zoom THEN -85051 ELSE 0

TileBox(zoom, x, y) ==
  [longitude_min |-> TileLongitude(zoom, x),
   longitude_max |-> TileLongitude(zoom, x + 1),
   latitude_min |-> TileLatitude(zoom, y + 1),
   latitude_max |-> TileLatitude(zoom, y)]

\* The directories of the model: up to NumFiles files, in read_dir order.
Directories == SeqsUpTo(FileNames, NumFiles)

Init ==
  /\ ParseIdle
  /\ RenderIdle
  /\ m_files \in Directories
  /\ m_max \in {1, Unlimited}
  /\ m_task = [i \in 1..Len(m_files) |-> "queued"]
  /\ m_chan = <<>>
  /\ m_pc = "collect"
  /\ m_taken = 0
  /\ m_stations = <<>>
  /\ m_printed = <<>>
  /\ m_week = 0
  /\ m_renders = 0
  /\ m_image = <<>>

\* A thread of the pool takes the oldest queued job, lines 485-495.
StartTask(i) ==
  /\ m_task[i] = "queued"
  /\ \A j \in 1..(i - 1) : m_task[j] # "queued"
  /\ Cardinality({j \in DOMAIN m_task : m_task[j] = "running"}) < NumThreads
  /\ m_task' = [m_task EXCEPT ![i] = "running"]
  /\ UNCHANGED <<m_files, m_max, m_chan, m_pc, m_taken, m_stations,
                 m_printed, m_week, m_renders, m_image, p_vars, r_vars>>

\* The job runs parse_file and sends its Result, lines 491-495.  A panic
\* unwinds the job before tx.send: nothing is sent, the pool replaces the
\* thread.
FinishTask(i) ==
  /\ m_task[i] = "running"
  /\ LET result == ParseFile(FileOf(m_files[i]), m_max)
     IN  IF result.kind = "panic"
           THEN /\ m_task' = [m_task EXCEPT ![i] = "panicked"]
                /\ UNCHANGED m_chan
           ELSE /\ m_task' = [m_task EXCEPT ![i] = "sent"]
                /\ m_chan' = Append(m_chan,
                     [from |-> i, kind |-> result.kind,
                      station |-> result.station])
  /\ UNCHANGED <<m_files, m_max, m_pc, m_taken, m_stations, m_printed,
                 m_week, m_renders, m_image, p_vars, r_vars>>

\* The collector takes the next Result, lines 502-522.  It blocks while the
\* channel is empty: the closure still holds `tx`, so the channel never
\* disconnects.
Collect ==
  /\ m_pc = "collect"
  /\ ~TakeFinished(m_taken, Len(m_files))
  /\ m_chan # <<>>
  /\ LET result == Head(m_chan)
     IN  IF result.kind = "ok"
           THEN /\ m_stations' = Append(m_stations, result.station[1])
                /\ UNCHANGED m_printed
           ELSE /\ m_printed' = Append(m_printed, result.from)
                /\ UNCHANGED m_stations
  /\ m_chan' = Tail(m_chan)
  /\ m_taken' = m_taken + 1
  /\ UNCHANGED <<m_files, m_max, m_task, m_pc, m_week, m_renders, m_image,
                 p_vars, r_vars>>

\* The loop over the results ends, line 522.
CollectEnd ==
  /\ m_pc = "collect"
  /\ TakeFinished(m_taken, Len(m_files))
  /\ m_pc' = "collected"
  /\ UNCHANGED <<m_files, m_max, m_task, m_chan, m_taken, m_stations,
                 m_printed, m_week, m_renders, m_image, p_vars, r_vars>>

\* --file, lines 525-527: absent, or parse_file(f).unwrap() is pushed; the
\* unwrap of an Err, like a panic of parse_file, ends the process.
FileOption ==
  /\ m_pc = "collected"
  /\ \E f \in {"", "C"} :
       IF f = "" THEN m_pc' = "file_done" /\ UNCHANGED m_stations
       ELSE LET result == ParseFile(FileOf(f), m_max)
            IN  IF result.kind = "ok"
                  THEN /\ m_stations' = Append(m_stations, result.station[1])
                       /\ m_pc' = "file_done"
                  ELSE m_pc' = "crashed" /\ UNCHANGED m_stations
  /\ UNCHANGED <<m_files, m_max, m_task, m_chan, m_taken, m_printed, m_week,
                 m_renders, m_image, p_vars, r_vars>>

\* --render_dir, line 531: absent, or the loop over the weeks begins.
RenderOption ==
  /\ m_pc = "file_done"
  /\ m_pc' \in {"serve", "batch"}
  /\ UNCHANGED <<m_files, m_max, m_task, m_chan, m_taken, m_stations,
                 m_printed, m_week, m_renders, m_image, p_vars, r_vars>>

(***************************************************************************)
(* One weekly image, lines 533-539.  With latitude_max = 90 and            *)
(* latitude_min = -90 mercator() is NaN and -inf, so `y` of a station in   *)
(* the box is `NaN as i32`: undefined in the compiler the crate builds     *)
(* with.  Either the cast gives a value check_ge!(y, 0) accepts and the    *)
(* image is drawn, or the check panics and ends the process.               *)
(***************************************************************************)
BatchRender ==
  /\ m_pc = "batch"
  /\ m_week < NumWeeks
  /\ \/ /\ m_image' \in DrawStations(m_stations, WorldBox,
                                     Start2016 + m_week * Week,
                                     Start2016 + (m_week + 1) * Week)
        /\ m_renders' = m_renders + 1
        /\ m_week' = m_week + 1
        /\ m_pc' = IF m_week' = NumWeeks THEN "serve" ELSE "batch"
     \/ /\ \E k \in 1..Len(m_stations) : ~OutOfBox(m_stations[k], WorldBox)
        /\ m_pc' = "crashed"
        /\ UNCHANGED <<m_image, m_renders, m_week>>
  /\ UNCHANGED <<m_files, m_max, m_task, m_chan, m_taken, m_stations,
                 m_printed, p_vars, r_vars>>

\* GET /api/map/<zoom>/<x>/<y>/tile.png, lines 412-451, on the managed
\* stations.
MapTile(zoom, x, y) ==
  /\ m_pc = "serve"
  /\ m_renders - m_week < MaxRequests
  /\ m_image' \in DrawStations(m_stations, TileBox(zoom, x, y), Time1900,
                               Time2100)
  /\ m_renders' = m_renders + 1
  /\ UNCHANGED <<m_files, m_max, m_task, m_chan, m_pc, m_taken, m_stations,
                 m_printed, m_week, p_vars, r_vars>>

Next ==
  \/ \E i \in DOMAIN m_task : StartTask(i) \/ FinishTask(i)
  \/ Collect
  \/ CollectEnd
  \/ FileOption
  \/ RenderOption
  \/ BatchRender
  \/ \E t \in Tiles : MapTile(t[1], t[2], t[3])

Spec == Init /\ [][Next]_vars

----------------------------------------------------------------------------
(* Properties of parse, checked under SpecParse. *)

Measurements == p_state.station.measurements

\* The number of the line that pushed the first measurement, 0 if none did.
FirstPush ==
  IF \E n \in 1..Len(p_hist) : p_hist[n].pushed
    THEN CHOOSE n \in 1..Len(p_hist) :
           p_hist[n].pushed /\ \A k \in 1..(n - 1) : ~p_hist[k].pushed
    ELSE 0

\* C4 as stated: the station parse returns has its measurements in
\* non-decreasing datetime order, whatever the order of the lines of the file.
C4_SortedWhateverTheLines ==
  p_state.status = "ok" => Sorted(Measurements)

\* C4 amended: parse keeps the order of the file, so the measurements are in
\* non-decreasing datetime order whenever the lines of the file are.
C4_SortedIfLinesSorted ==
  Sorted(p_file.lines) => Sorted(Measurements)

C4_Witness ==
  /\ p_state.status = "ok"
  /\ Sorted(p_file.lines)
  /\ Len(Measurements) = 3
  /\ Measurements[1].datetime < Measurements[3].datetime

\* C6 as stated: the location is written only by the line that yields the
\* first retained measurement: no line that yields no measurement, and no line
\* after the first retained measurement, assigns latitude or longitude.
C6_WrittenOnlyByFirstRetained ==
  \A n \in 1..Len(p_hist) : p_hist[n].wrote # {} => n = FirstPush

\* C6 amended: latitude and longitude are assigned by every line read while
\* the series is still empty that passes the check of the field (so also by
\* earlier lines that yield no measurement) and by no line read after the
\* first retained measurement; once a measurement is retained the station
\* keeps the location of the line that yielded the first one.
C6_LatchedWhileEmpty ==
  /\ \A n \in 1..Len(p_hist) :
       /\ p_hist[n].wrote # {} => (FirstPush = 0 \/ n <= FirstPush)
       /\ (n < Len(p_hist) \/ p_state.status \in {"running", "ok"})
          /\ (FirstPush = 0 \/ n <= FirstPush)
            => p_hist[n].wrote = {"latitude", "longitude"}
  /\ FirstPush # 0 =>
       /\ p_state.station.latitude = p_file.lines[FirstPush].latitude
       /\ p_state.station.longitude = p_file.lines[FirstPush].longitude

C6_Witness ==
  /\ p_state.status = "ok"
  /\ Len(p_hist) = 3
  /\ p_hist[1].wrote = {"latitude", "longitude"} /\ ~p_hist[1].pushed
  /\ FirstPush = 2
  /\ p_hist[3].pushed
  /\ p_file.lines[1].latitude # p_file.lines[2].latitude
  /\ p_file.lines[3].latitude # p_file.lines[2].latitude
  /\ p_state.station.latitude = p_file.lines[2].latitude

\* The presence of the three optional values of a line, by the valid ranges
\* of the record format.
WindPresent(line) ==
  \/ line.wind_direction \in 0..360 /\ line.wind_speed \in 0..900
  \/ line.wind_type \in {"C", "V"}
  \/ line.wind_type = "9" /\ line.wind_speed = 0
TemperaturePresent(line) == line.temp \in -1000..1000
PressurePresent(line) == line.air_pressure \in 0..20000
AnyPresent(line) ==
  WindPresent(line) \/ TemperaturePresent(line) \/ PressurePresent(line)

\* The step read a line that passed the hard checks (and had no unparsable
\* token).
ReadPassingLine ==
  /\ p_state'.pos = p_state.pos + 1
  /\ p_state'.status \in {"running", "ok"}

\* C7: a line that passes the hard checks appends exactly one measurement iff
\* one of its wind, temperature and pressure is present, whatever its
\* elevation; otherwise it appends nothing and the loop goes on.  Every
\* measurement of the station has one of the three present.
C7_RetainedIffAnyPresent ==
  /\ [](\A i \in 1..Len(Measurements) :
          \/ Measurements[i].wind # None
          \/ Measurements[i].air_temperature # None
          \/ Measurements[i].air_pressure # None)
  /\ [][ReadPassingLine =>
          LET line == p_file.lines[p_state'.pos]
              old == p_state.station.measurements
              new == p_state'.station.measurements
          IN  IF AnyPresent(line)
                THEN /\ Len(new) = Len(old) + 1
                     /\ SubSeq(new, 1, Len(old)) = old
                     /\ new[Len(new)].datetime = line.datetime
                     /\ (new[Len(new)].air_temperature # None)
                          = TemperaturePresent(line)
                     /\ (new[Len(new)].air_pressure # None)
                          = PressurePresent(line)
                     /\ (new[Len(new)].wind # None) = WindPresent(line)
                ELSE new = old /\ p_state'.status = "running"]_vars

C7_Witness ==
  /\ p_state.status = "ok"
  /\ Len(p_hist) = 2
  /\ ~AnyPresent(p_file.lines[1]) /\ ~p_hist[1].pushed
  /\ ~(p_file.lines[2].elevation \in -400..9000)
  /\ WindPresent(p_file.lines[2]) /\ p_hist[2].pushed
  /\ Len(Measurements) = 1
  /\ p_state.missing.elevation = 1

\* C9 as stated: with a cap M on the measurements the returned station holds
\* at most M of them.
C9_AtMostCap ==
  p_state.status = "ok" => Len(Measurements) <= p_max

\* The decoding of the wind in the words of the record format.
WindInRange(line) ==
  line.wind_direction \in 0..360 /\ line.wind_speed \in 0..900
WindCalmType(line) ==
  line.wind_type = "C" \/ (line.wind_type = "9" /\ line.wind_speed = 0)
ExpectedWind(line) ==
  CASE WindInRange(line) ->
         Some([kind |-> "Normal", speed |-> line.wind_speed,
               direction |-> line.wind_direction])
    [] ~WindInRange(line) /\ WindCalmType(line) -> Some([kind |-> "Calm"])
    [] ~WindInRange(line) /\ ~WindCalmType(line) /\ line.wind_type = "V" ->
         Some([kind |-> "Variable"])
    [] OTHER -> None

\* C10: the wind of a line is Normal when direction and speed are in range,
\* whatever the type; otherwise Calm for type 'C' or type '9' with speed 0;
\* otherwise Variable for type 'V'; otherwise absent, and the "wind" counter
\* grows by one exactly in that last case.
C10_WindPrecedence ==
  [][LET line == p_file.lines[p_state'.pos]
         new == p_state'.station.measurements
     IN  /\ ReadPassingLine =>
              /\ Len(new) > Len(p_state.station.measurements)
                   => new[Len(new)].wind = ExpectedWind(line)
              /\ p_state'.missing.wind = p_state.missing.wind
                   + (IF ExpectedWind(line) = None THEN 1 ELSE 0)
         /\ ~ReadPassingLine /\ p_state'.status = "err"
              => p_state'.missing.wind = p_state.missing.wind
         /\ p_state'.pos = p_state.pos
              => p_state'.missing.wind = p_state.missing.wind]_vars

C10_Witness ==
  /\ p_state.status = "ok"
  /\ Len(p_file.lines) = 1
  /\ p_file.lines[1].wind_type = "C"
  /\ p_file.lines[1].wind_direction = 360 /\ p_file.lines[1].wind_speed = 900
  /\ Measurements = <<Measurement(10, Some(Normal(900, 360)), Some(123), None)>>
  /\ p_state.missing.wind = 0

----------------------------------------------------------------------------
(* Properties of draw_stations, checked under SpecRender. *)

\* The measurements of the candidate window, by their place in the series.
WindowIndices == (r_start + 1)..(r_start + r_end)

\* The number of measurements before the first one with datetime >= time.
LowerBound(seq, time) ==
  Cardinality({i \in 1..Len(seq) :
                 \A j \in 1..i : seq[j].datetime < time})

\* C5 as stated: for a series non-decreasing in datetime, equal timestamps
\* allowed, the two searches select exactly the measurements with
\* start_time <= datetime < end_time, the start index being the first index
\* with datetime >= start_time.
C5_WindowExact ==
  r_pc \in {"pick", "done"} /\ r_meas # <<>> /\ Sorted(r_meas) =>
    /\ r_start = LowerBound(r_meas, r_window.start_time)
    /\ r_end = LowerBound(Skip(r_meas, r_start), r_window.end_time)
    /\ WindowIndices =
         {i \in 1..Len(r_meas) :
            /\ r_window.start_time <= r_meas[i].datetime
            /\ r_meas[i].datetime < r_window.end_time}

\* The first measurement of the candidate window that has a temperature, as
\* its temperature token; None if there is none.
WindowTemperature ==
  LET has == {i \in WindowIndices : r_meas[i].air_temperature # None}
  IN  IF r_meas = <<>> \/ has = {} THEN None
      ELSE r_meas[CHOOSE i \in has : \A j \in has : i <= j].air_temperature

\* 700 * s, for s = (clamp(t, -30, 40) + 30) / 70 and t = temp / 10.
Scaled700(temp) ==
  (IF temp < -300 THEN -300 ELSE IF temp > 400 THEN 400 ELSE temp) + 300

\* (floor(255 * s), 127, floor(255 * (1 - s))) in exact arithmetic.
ExactColor(temp) ==
  <<(255 * Scaled700(temp)) \div 700, 127,
    (255 * (700 - Scaled700(temp))) \div 700>>

\* C8 as stated: the pixel is black when no measurement of the candidate
\* window has a temperature, and otherwise (floor(255*s), 127,
\* floor(255*(1-s))) for the first temperature of the window.
C8_ExactColor ==
  r_pc = "done" =>
    r_pixel = IF WindowTemperature = None THEN Black
              ELSE ExactColor(WindowTemperature[1])

\* C8 amended: the formula is evaluated in f32, which gives the exact value
\* for every temperature but 12.0 and 26.0, where 255 * (1 - s) is a whole
\* number in exact arithmetic and blue comes out one lower (101 and 50).  The
\* pixel is black without a temperature in the window; -30 and below give
\* (0,127,255), 40 and above (255,127,0); green is 127; red does not decrease
\* and blue does not increase with the temperature.
C8_ColorF32 ==
  r_pc = "done" =>
    IF WindowTemperature = None THEN r_pixel = Black
    ELSE LET temp == WindowTemperature[1]
             exact == ExactColor(temp)
         IN  /\ r_pixel[1] = exact[1]
             /\ r_pixel[2] = 127
             /\ r_pixel[3] = IF temp \in {120, 260} THEN exact[3] - 1
                             ELSE exact[3]
             /\ temp <= -300 => r_pixel = <<0, 127, 255>>
             /\ temp >= 400 => r_pixel = <<255, 127, 0>>
             /\ temp > -1000 =>
                  /\ TemperatureColor(temp - 1)[1] <= r_pixel[1]
                  /\ TemperatureColor(temp - 1)[3] >= r_pixel[3]

C8_Witness ==
  /\ r_pc = "done"
  /\ Len(r_meas) = 4
  /\ r_meas[1].datetime = 1 /\ r_meas[1].air_temperature = Some(400)
  /\ r_meas[2].datetime = 3 /\ r_meas[2].air_temperature = None
  /\ r_meas[3].datetime = 5 /\ r_meas[3].air_temperature = Some(-300)
  /\ r_meas[4].datetime = 5 /\ r_meas[4].air_temperature = Some(400)
  /\ r_window = [start_time |-> 3, end_time |-> 6]
  /\ r_start = 1
  /\ r_pixel = <<0, 127, 255>>

----------------------------------------------------------------------------
(* Properties of main, checked under Spec. *)

\* The line breaks a hard check of parse: a station code that differs from
\* the file name's, or a latitude or longitude out of range.
HardViolation(file, line) ==
  \/ line.usaf # file.usaf
  \/ line.wban # file.wban
  \/ line.latitude < -90000 \/ line.latitude > 90000
  \/ line.longitude < -180000 \/ line.longitude > 180000

\* The parse of the i-th file of the directory.
ParseOf(i) == Parse(FileOf(m_files[i]), m_max)

\* The files of the directory whose parse fails a hard check.
Failing == {i \in 1..Len(m_files) :
              FileOf(m_files[i]).exists /\ ParseOf(i).status = "err"}

\* The collector has taken the Result of the i-th file.
Taken(i) ==
  m_task[i] = "sent" /\ ~(\E n \in 1..Len(m_chan) : m_chan[n].from = i)

\* C1: of N files, k of which fail a hard check, the collector finishes with
\* N - k stations and k reported failures.  The parse of a failing file stops
\* at its first offending line and returns an error, nothing of that file is
\* in the store, and the store holds the complete station of every other
\* file whose result was taken, in whatever order the workers finished.
C1_FailuresIsolated ==
  m_pc \in {"collect", "collected"} =>
  /\ \A i \in Failing :
       LET file == FileOf(m_files[i])
           st == ParseOf(i)
       IN  /\ HardViolation(file, file.lines[st.pos])
           /\ \A n \in 1..(st.pos - 1) : ~HardViolation(file, file.lines[n])
           /\ \A k \in 1..Len(m_stations) : m_stations[k].usaf # file.usaf
  /\ \A n \in 1..Len(m_printed) : m_printed[n] \in Failing
  /\ m_pc = "collect" =>
       /\ Len(m_stations) =
            Cardinality({i \in DOMAIN m_task : Taken(i) /\ i \notin Failing})
       /\ Len(m_printed) =
            Cardinality({i \in DOMAIN m_task : Taken(i) /\ i \in Failing})
       /\ \A k \in 1..Len(m_stations) :
            \E i \in DOMAIN m_task :
              Taken(i) /\ i \notin Failing
              /\ m_stations[k] = ParseOf(i).station
  /\ m_pc = "collected" =>
       /\ Len(m_stations) = Len(m_files) - Cardinality(Failing)
       /\ Len(m_printed) = Cardinality(Failing)
       /\ \A i \in 1..Len(m_files) :
            i \notin Failing =>
              Cardinality({k \in 1..Len(m_stations) :
                             m_stations[k] = ParseOf(i).station})
                = Cardinality({j \in 1..Len(m_files) :
                                 m_files[j] = m_files[i]})

\* Three files, the third-listed one with a station code mismatch on its
\* third line, the other two collected in the reverse of their listing.
C1_Witness ==
  /\ m_pc = "collected"
  /\ m_files = <<"A", "B", "C">>
  /\ m_max = Unlimited
  /\ Failing = {3}
  /\ Len(ParseOf(3).station.measurements) = 2
  /\ Len(m_stations) = 2
  /\ m_stations[1].usaf = "020020" /\ m_stations[2].usaf = "010010"
  /\ m_printed = <<3>>

\* C2 as stated: every enqueued parse task delivers exactly one Result, also
\* for a file that cannot be opened or has an unparsable token; so once no
\* task is left to run and the channel is drained, the collector has
\* observed all N results.
C2_EveryTaskDeliversOneResult ==
  /\ \A i \in DOMAIN m_task :
       m_task[i] \notin {"queued", "running"} => m_task[i] = "sent"
  /\ (\A i \in DOMAIN m_task : m_task[i] \notin {"queued", "running"})
       /\ m_chan = <<>>
       => m_taken = Len(m_files)

\* C3: no image is drawn before the collector has observed all N results,
\* and from the first image on the station store never changes.
C3_SingleWriterThenReaders ==
  /\ [](m_renders > 0 =>
          /\ m_taken = Len(m_files)
          /\ m_pc \in {"batch", "serve", "crashed"}
          /\ \A i \in DOMAIN m_task : m_task[i] = "sent"
          /\ m_chan = <<>>)
  /\ [][m_renders > 0 \/ m_renders' > 0 => m_stations' = m_stations]_vars

\* Three files ingested, the 52 weekly images and a tile drawn.
C3_Witness ==
  /\ m_pc = "serve"
  /\ Len(m_files) = 3
  /\ Len(m_stations) = 3
  /\ m_week = NumWeeks
  /\ m_renders = NumWeeks + 1
  /\ \E k \in 1..3 : m_image[k] = None
  /\ \E k \in 1..3 : m_image[k] # None /\ m_image[k] # Some(Black)

====
